---------------------------- MODULE Spec2Model ----------------------------
(***************************************************************************)
(* A model of the KAMIS scraper (teddybear/spiders/kamis.py): the value    *)
(* parsers, the market/county resolver and the header mapper as operators  *)
(* on texts, and the DatabaseManager / KAMISScraper run as a state machine *)
(* whose steps are the calls made to the store.                            *)
(*                                                                         *)
(* A text is a sequence of characters, each character a one-letter string; *)
(* the four non-ASCII characters the source mentions carry their code      *)
(* point as their name.                                                    *)
(***************************************************************************)
EXTENDS Integers, Sequences, FiniteSets, TLC

VARIABLES
    \* the store (Supabase tables); a row's id is its position
    commodity_categories, counties, commodities, markets, price_records,
    \* the source snapshot and the argument of run
    productList, pages, specific_products,
    \* the coordinators (one KAMISScraper process each), the number of calls
    \* that raised, and whether the coordinators run one at a time
    co, failures, singleWriter,
    \* the text operations: input text, input header row, input table rows
    \* (each the texts of its cells), last result
    text, rawHeaders, rawRows, out

storeVars == <<commodity_categories, counties, commodities, markets, price_records>>
inputVars == <<productList, pages, specific_products, singleWriter>>
textVars  == <<text, rawHeaders, rawRows, out>>
vars == <<commodity_categories, counties, commodities, markets, price_records,
          productList, pages, specific_products, co, failures,
          singleWriter, text, rawHeaders, rawRows, out>>

----------------------------------------------------------------------------
(* Bounds of the model *)

\* longest generated input text of the text operations
MaxLen == 3
\* longest generated header row
MaxHeaders == 2
\* most products in the product list, most rows on a product's page
MaxProducts == 2
MaxRecords == 2
\* most calls to the page source or the store that raise
MaxFailures == 2

----------------------------------------------------------------------------
(* Characters and texts *)

EN_DASH == "U+2013"
A_CIRC  == "U+00E2"
EURO    == "U+20AC"
LDQUO   == "U+201C"

LowerCase == <<"a","b","c","d","e","f","g","h","i","j","k","l","m",
               "n","o","p","q","r","s","t","u","v","w","x","y","z">>
UpperCase == <<"A","B","C","D","E","F","G","H","I","J","K","L","M",
               "N","O","P","Q","R","S","T","U","V","W","X","Y","Z">>
Digits    == <<"0","1","2","3","4","5","6","7","8","9">>

IndexIn(ch, tab) == IF \E i \in DOMAIN tab : tab[i] = ch
                    THEN CHOOSE i \in DOMAIN tab : tab[i] = ch
                    ELSE 0

IsLower(ch) == IndexIn(ch, LowerCase) > 0
IsUpper(ch) == IndexIn(ch, UpperCase) > 0
IsCased(ch) == IsLower(ch) \/ IsUpper(ch)
\* \d of the regular expressions
IsDigit(ch) == IndexIn(ch, Digits) > 0
DigitVal(ch) == IndexIn(ch, Digits) - 1
\* \s of the regular expressions and the characters str.strip() removes
IsSpace(ch) == ch = " "

\* str.lower / str.upper of one character
LowerCh(ch) == IF IsUpper(ch) THEN LowerCase[IndexIn(ch, UpperCase)] ELSE ch
UpperCh(ch) == IF IsLower(ch) THEN UpperCase[IndexIn(ch, LowerCase)] ELSE ch

\* str.lower()
Lower(s) == [i \in 1..Len(s) |-> LowerCh(s[i])]

\* str.title(): a cased character is upper-cased when the character before
\* it is not cased, lower-cased otherwise
Title(s) == [i \in 1..Len(s) |->
               IF i > 1 /\ IsCased(s[i-1]) THEN LowerCh(s[i]) ELSE UpperCh(s[i])]

\* str.strip()
Strip(s) ==
    LET keep == {i \in 1..Len(s) : ~IsSpace(s[i])}
    IN  IF keep = {} THEN <<>>
        ELSE LET lo == CHOOSE i \in keep : \A j \in keep : i <= j
                 hi == CHOOSE i \in keep : \A j \in keep : j <= i
             IN  SubSeq(s, lo, hi)

\* v in h, for two texts
Contains(h, v) ==
    \E k \in 0..(Len(h) - Len(v)) : \A j \in 1..Len(v) : h[k + j] = v[j]

\* All texts over an alphabet, up to a length
TextsUpTo(alphabet, n) == UNION {[1..k -> alphabet] : k \in 0..n}

----------------------------------------------------------------------------
(* Decimal values: the digits as an integer and the number of digits after *)
(* the point (Decimal('1234.50') is m = 123450, s = 2); ok = FALSE is None *)

None == [ok |-> FALSE, m |-> 0, s |-> 0]
Dec(m, s) == [ok |-> TRUE, m |-> m, s |-> s]

RECURSIVE DigitsValue(_)
DigitsValue(ds) ==
    IF ds = <<>> THEN 0
    ELSE 10 * DigitsValue(SubSeq(ds, 1, Len(ds) - 1)) + DigitVal(ds[Len(ds)])

\* Decimal(str) on a text of digits and points: a number has one point at
\* most and one digit at least; anything else raises InvalidOperation,
\* which is the result with invalid = TRUE
DecimalOf(s) ==
    LET points == {i \in 1..Len(s) : s[i] = "."}
        digits == SelectSeq(s, IsDigit)
    IN  IF \/ \E i \in 1..Len(s) : ~IsDigit(s[i]) /\ s[i] # "."
           \/ Cardinality(points) > 1
           \/ digits = <<>>
        THEN [invalid |-> TRUE, val |-> None]
        ELSE [invalid |-> FALSE,
              val |-> Dec(DigitsValue(digits),
                          IF points = {} THEN 0
                          ELSE Len(s) - (CHOOSE i \in points : TRUE))]

\* the texts both parsers take as "no value"
NoValue == {<<>>, <<"-">>, <<"N","/","A">>}

\* [^\d.] of _parse_price: the characters re.sub removes
PriceDropNoPoint(ch) == ~IsDigit(ch)
PriceDrop(ch) == ~(IsDigit(ch) \/ ch = ".")
PriceKeep(ch) == ~PriceDrop(ch)

\* KAMISScraper._parse_price
ParsePrice(value) ==
    IF value = <<>> \/ value \in NoValue THEN None
    ELSE LET cleaned == SelectSeq(value, PriceKeep)
         IN  IF cleaned = <<>> THEN None
             ELSE IF DecimalOf(cleaned).invalid THEN None
             ELSE DecimalOf(cleaned).val

\* value.replace(',', '')
NotComma(ch) == ch # ","
RemoveCommas(value) == SelectSeq(value, NotComma)

\* re.findall(r'\d+', v)[0]: the first maximal run of digits of v, or <<>>
FirstRunKeepCommas(value) ==
    LET ds == {i \in 1..Len(value) : IsDigit(value[i])}
    IN  IF ds = {} THEN <<>>
        ELSE LET lo == CHOOSE i \in ds : \A j \in ds : i <= j
                 hi == CHOOSE i \in lo..Len(value) :
                          /\ \A j \in lo..i : IsDigit(value[j])
                          /\ i = Len(value) \/ ~IsDigit(value[i + 1])
             IN  SubSeq(value, lo, hi)
FirstDigitRun(value) ==
    LET v  == RemoveCommas(value)
        ds == {i \in 1..Len(v) : IsDigit(v[i])}
    IN  IF ds = {} THEN <<>>
        ELSE LET lo == CHOOSE i \in ds : \A j \in ds : i <= j
                 hi == CHOOSE i \in lo..Len(v) :
                          /\ \A j \in lo..i : IsDigit(v[j])
                          /\ i = Len(v) \/ ~IsDigit(v[i + 1])
             IN  SubSeq(v, lo, hi)

\* KAMISScraper._parse_volume
ParseVolume(value) ==
    IF value = <<>> \/ value \in NoValue THEN None
    ELSE LET run == FirstDigitRun(value)
         IN  IF run = <<>> THEN None
             ELSE IF DecimalOf(run).invalid THEN None
             ELSE DecimalOf(run).val

----------------------------------------------------------------------------
(* The market/county resolver.  re.match anchors a pattern at the start    *)
(* of the text; (.+?) takes the fewest characters that let the rest match, *)
(* \s* and (.+) the most.  The texts hold no line break, so "." matches    *)
(* every character.                                                        *)

Unknown == <<"U","n","k","n","o","w","n">>

\* the character class of the first pattern as the source file spells it:
\* a hyphen and the three characters U+00E2, U+20AC, U+201C
DashClass == {"-", A_CIRC, EURO, LDQUO}

\* where a greedy \s* that starts after position i ends
WsEnd(t, i) ==
    CHOOSE j \in i..Len(t) :
        /\ \A k \in (i + 1)..j : IsSpace(t[k])
        /\ j = Len(t) \/ ~IsSpace(t[j + 1])

NoMatch == [matched |-> FALSE, g1 |-> <<>>, g2 |-> <<>>]

\* (.+?)\s*[D]\s*(.+): the shortest first group that is followed by blanks,
\* a character of D and one character at least
MatchSeparator(t, D) ==
    LET fits(i) == LET d == WsEnd(t, i) + 1
                   IN  d < Len(t) /\ t[d] \in D
        cand == {i \in 1..Len(t) : fits(i)}
    IN  IF cand = {} THEN NoMatch
        ELSE LET i == CHOOSE x \in cand : \A y \in cand : x <= y
                 d == WsEnd(t, i) + 1
                 e == WsEnd(t, d)
             IN  [matched |-> TRUE,
                  g1 |-> SubSeq(t, 1, i),
                  \* \s* gives its last blank back when nothing follows it
                  g2 |-> IF e < Len(t) THEN SubSeq(t, e + 1, Len(t))
                         ELSE SubSeq(t, Len(t), Len(t))]

\* (.+?)\s*\((.+?)\): the second group ends before the first ")" that
\* leaves it one character at least
MatchParens(t) ==
    LET close(d) == {c \in (d + 2)..Len(t) : t[c] = ")"}
        fits(i) == LET d == WsEnd(t, i) + 1
                   IN  d <= Len(t) /\ t[d] = "(" /\ close(d) # {}
        cand == {i \in 1..Len(t) : fits(i)}
    IN  IF cand = {} THEN NoMatch
        ELSE LET i == CHOOSE x \in cand : \A y \in cand : x <= y
                 d == WsEnd(t, i) + 1
                 c == CHOOSE x \in close(d) : \A y \in close(d) : x <= y
             IN  [matched |-> TRUE,
                  g1 |-> SubSeq(t, 1, i),
                  g2 |-> SubSeq(t, d + 1, c - 1)]

\* the three patterns, in the order of the list, the first with the
\* character class dashes
PatternMatch(k, t, dashes) ==
    CASE k = 1 -> MatchSeparator(t, dashes)
      [] k = 2 -> MatchParens(t)
      [] k = 3 -> MatchSeparator(t, {","})

\* the loop over the patterns: the groups of the first that matches,
\* stripped, or the stripped text and "Unknown"
FirstPatternMatch(market_text, dashes) ==
    LET hits == {k \in 1..3 : PatternMatch(k, market_text, dashes).matched}
    IN  IF hits = {} THEN <<Strip(market_text), Unknown>>
        ELSE LET k == CHOOSE x \in hits : \A y \in hits : x <= y
                 m == PatternMatch(k, market_text, dashes)
             IN  <<Strip(m.g1), Strip(m.g2)>>

\* KAMISScraper._extract_county_from_market
ExtractCountyFromMarket(market_text) == FirstPatternMatch(market_text, DashClass)

----------------------------------------------------------------------------
(* The header mapper *)

Fields == {"market", "county", "classification", "grade", "sex",
           "wholesale", "retail", "volume", "date"}

\* header_map of scrape_product
HeaderVariants(target) ==
    CASE target = "market" ->
       << <<"m","a","r","k","e","t">>,
          <<"m","a","r","k","e","t"," ","n","a","m","e">>,
          <<"s","o","k","o">> >>
      [] target = "county" ->
       << <<"c","o","u","n","t","y">>,
          <<"r","e","g","i","o","n">>,
          <<"c","o","u","n","t","y"," ","n","a","m","e">> >>
      [] target = "classification" ->
       << <<"c","l","a","s","s","i","f","i","c","a","t","i","o","n">>,
          <<"v","a","r","i","e","t","y">>,
          <<"t","y","p","e">> >>
      [] target = "grade" ->
       << <<"g","r","a","d","e">>,
          <<"q","u","a","l","i","t","y">> >>
      [] target = "sex" ->
       << <<"s","e","x">>,
          <<"g","e","n","d","e","r">> >>
      [] target = "wholesale" ->
       << <<"w","h","o","l","e","s","a","l","e"," ","p","r","i","c","e">>,
          <<"w","h","o","l","e","s","a","l","e">>,
          <<"w","/","s","a","l","e"," ","p","r","i","c","e">> >>
      [] target = "retail" ->
       << <<"r","e","t","a","i","l"," ","p","r","i","c","e">>,
          <<"r","e","t","a","i","l">>,
          <<"p","r","i","c","e">> >>
      [] target = "volume" ->
       << <<"s","u","p","p","l","y"," ","v","o","l","u","m","e">>,
          <<"v","o","l","u","m","e">>,
          <<"q","u","a","n","t","i","t","y">>,
          <<"s","u","p","p","l","y">> >>
      [] target = "date" ->
       << <<"d","a","t","e">>,
          <<"p","r","i","c","e"," ","d","a","t","e">>,
          <<"r","e","c","o","r","d","e","d"," ","d","a","t","e">> >>

\* headers = [th.get_text(strip=True).lower() for th in thead.find_all('th')]
HeaderTexts(raw) == [i \in 1..Len(raw) |-> Lower(Strip(raw[i]))]

\* find_column_index of scrape_product: the 0-based index of the first
\* header that contains a variant of the target, or -1
FindColumnIndex(headers, target) ==
    LET variants == HeaderVariants(target)
        hits == {i \in 1..Len(headers) :
                    \E v \in 1..Len(variants) : Contains(headers[i], variants[v])}
    IN  IF hits = {} THEN -1
        ELSE (CHOOSE i \in hits : \A j \in hits : i <= j) - 1

\* idx_map of scrape_product
IdxMap(headers) == [f \in Fields |-> FindColumnIndex(headers, f)]

NoIdxMap == [f \in Fields |-> -1]

----------------------------------------------------------------------------
(* Dates, and the values staged for the store *)

DigitCh(n) == Digits[n + 1]
Pad2(n) == <<DigitCh(n \div 10), DigitCh(n % 10)>>
Pad4(n) == <<DigitCh(n \div 1000), DigitCh((n \div 100) % 10),
             DigitCh((n \div 10) % 10), DigitCh(n % 10)>>

\* date.isoformat() of the date <<year, month, day>>: YYYY-MM-DD
IsoFormat(d) == Pad4(d[1]) \o <<"-">> \o Pad2(d[2]) \o <<"-">> \o Pad2(d[3])

\* float(x): the value of the decimal, whatever its trailing zeros
RECURSIVE Float(_)
Float(d) == IF d.s > 0 /\ d.m % 10 = 0 THEN Float(Dec(d.m \div 10, d.s - 1)) ELSE d

\* float(x) if x else None: a Decimal that is None or zero is falsy
FloatOrNone(x) == IF x.ok /\ x.m # 0 THEN Float(x) ELSE None

----------------------------------------------------------------------------
(* _parse_date.  A date is <<year, month, day>>. *)

\* the parts of a text between the occurrences of a separator
RECURSIVE SplitOn(_, _)
SplitOn(t, sep) ==
    IF \E i \in 1..Len(t) : t[i] = sep
    THEN LET i == CHOOSE k \in 1..Len(t) :
                      t[k] = sep /\ \A j \in 1..(k - 1) : t[j] # sep
         IN  <<SubSeq(t, 1, i - 1)>> \o SplitOn(SubSeq(t, i + 1, Len(t)), sep)
    ELSE <<t>>

AllDigits(t) == \A i \in 1..Len(t) : IsDigit(t[i])

\* the value a directive of strptime reads from a part, 0 when the part does
\* not match it: %Y is four digits; %d is 1..31 in one or two digits, the
\* first of which may be a zero or a space; %m is 1..12 in one or two digits
DirectiveValue(directive, part) ==
    LET digits == IF directive = "d" /\ Len(part) = 2 /\ part[1] = " "
                  THEN SubSeq(part, 2, 2) ELSE part
        n == DigitsValue(digits)
    IN  IF digits = <<>> \/ ~AllDigits(digits) THEN 0
        ELSE IF directive = "Y" THEN (IF Len(part) = 4 THEN n ELSE 0)
        ELSE IF Len(part) > 2 THEN 0
        ELSE IF Len(part) = 2 /\ digits = part /\ part[1] = "0" /\ n = 0 THEN 0
        ELSE IF directive = "d" THEN (IF n \in 1..31 THEN n ELSE 0)
        ELSE (IF n \in 1..12 THEN n ELSE 0)

IsLeap(y) == (y % 4 = 0 /\ y % 100 # 0) \/ y % 400 = 0

DaysInMonth(y, m) ==
    IF m = 2 THEN (IF IsLeap(y) THEN 29 ELSE 28)
    ELSE IF m \in {4, 6, 9, 11} THEN 30 ELSE 31

\* formats of _parse_date, in its order: the separator and the directives
DateFormats == <<
    [sep |-> "-", directives |-> <<"Y", "m", "d">>],
    [sep |-> "/", directives |-> <<"d", "m", "Y">>],
    [sep |-> "-", directives |-> <<"d", "m", "Y">>],
    [sep |-> "/", directives |-> <<"m", "d", "Y">>] >>

NoDate == <<0, 0, 0>>

\* datetime.strptime(v, fmt).date(), NoDate when it raises ValueError: the
\* text does not match the format, or the date does not exist
Strptime(v, fmt) ==
    LET parts == SplitOn(v, fmt.sep)
        at(directive) ==
            LET k == CHOOSE i \in 1..3 : fmt.directives[i] = directive
            IN  DirectiveValue(directive, parts[k])
    IN  IF Len(parts) # 3 THEN NoDate
        ELSE IF at("Y") = 0 \/ at("m") = 0 \/ at("d") = 0 THEN NoDate
        ELSE IF at("d") > DaysInMonth(at("Y"), at("m")) THEN NoDate
        ELSE <<at("Y"), at("m"), at("d")>>

\* the formats of _parse_date with month/day tried before day/month
DateFormatsMonthFirst ==
    <<DateFormats[1], DateFormats[4], DateFormats[3], DateFormats[2]>>

\* the first format of a list that parses the text, else the fallback
FirstFormatIn(formats, v, fallback) ==
    LET hits == {k \in 1..Len(formats) : Strptime(v, formats[k]) # NoDate}
    IN  IF hits = {} THEN fallback
        ELSE Strptime(v, formats[CHOOSE k \in hits : \A h \in hits : k <= h])

\* _parse_date(value) on the day today
ParseDateMonthFirst(value, today) ==
    FirstFormatIn(DateFormatsMonthFirst, Strip(value), today)
ParseDate(value, today) == FirstFormatIn(DateFormats, Strip(value), today)

----------------------------------------------------------------------------
(* The store.  A select returns the ids of the matching rows. *)

\* categories of _initialize_categories
CategoryNames == <<"Grains", "Vegetables", "Fruits", "Livestock", "Fish", "Other">>

\* category_map of _categorize_product, in its order
CategoryMap == <<
  [category |-> "Grains", keywords |->
       { <<"m","a","i","z","e">>,
         <<"b","e","a","n","s">>,
         <<"r","i","c","e">>,
         <<"w","h","e","a","t">>,
         <<"s","o","r","g","h","u","m">>,
         <<"m","i","l","l","e","t">>,
         <<"g","r","e","e","n","g","r","a","m","s">>,
         <<"n","d","e","n","g","u">> }],
  [category |-> "Vegetables", keywords |->
       { <<"c","a","b","b","a","g","e">>,
         <<"k","a","l","e">>,
         <<"s","p","i","n","a","c","h">>,
         <<"t","o","m","a","t","o">>,
         <<"o","n","i","o","n">>,
         <<"p","o","t","a","t","o">>,
         <<"c","a","r","r","o","t">>,
         <<"p","e","p","p","e","r">>,
         <<"e","g","g","p","l","a","n","t">>,
         <<"l","e","t","t","u","c","e">> }],
  [category |-> "Fruits", keywords |->
       { <<"m","a","n","g","o">>,
         <<"b","a","n","a","n","a">>,
         <<"o","r","a","n","g","e">>,
         <<"a","p","p","l","e">>,
         <<"p","i","n","e","a","p","p","l","e">>,
         <<"w","a","t","e","r","m","e","l","o","n">>,
         <<"a","v","o","c","a","d","o">>,
         <<"p","a","s","s","i","o","n">> }],
  [category |-> "Livestock", keywords |->
       { <<"c","a","t","t","l","e">>,
         <<"g","o","a","t">>,
         <<"s","h","e","e","p">>,
         <<"p","i","g">>,
         <<"c","h","i","c","k","e","n">>,
         <<"b","r","o","i","l","e","r">>,
         <<"l","a","y","e","r">>,
         <<"b","e","e","f">>,
         <<"m","u","t","t","o","n">> }],
  [category |-> "Fish", keywords |->
       { <<"f","i","s","h">>,
         <<"t","i","l","a","p","i","a">>,
         <<"n","i","l","e"," ","p","e","r","c","h">>,
         <<"o","m","e","n","a">>,
         <<"s","a","r","d","i","n","e">> }] >>

\* the categories _categorize_product queries for a name, in order: every
\* category with a keyword in the lower-cased name, then 'Other'
CategoriesOtherOnly(product_name) == <<"Other">>
CategoriesToTry(product_name) ==
    LET name_lower == Lower(product_name)
        match(k) == \E kw \in CategoryMap[k].keywords : Contains(name_lower, kw)
        Cat(k) == CategoryMap[k].category
    IN  SelectSeq([k \in 1..Len(CategoryMap) |-> IF match(k) THEN Cat(k) ELSE ""],
                  LAMBDA x : x # "") \o <<"Other">>

\* .select('id').eq('name', name) on a table with a name column
SelectNothing(table, name) == {}
SelectByName(table, name) == {i \in DOMAIN table : table[i].name = name}

\* .select('id').eq('name', name).eq('county_id', county_id) on markets
SelectMarketNothing(name, county_id) == {}
SelectMarket(name, county_id) ==
    {i \in DOMAIN markets : markets[i].name = name /\ markets[i].county_id = county_id}

\* .select('id').eq('commodity_id', ..).eq('market_id', ..).eq('record_date', ..)
SelectPriceNothing(commodity_id, market_id, record_date) == {}
SelectPrice(commodity_id, market_id, record_date) ==
    {i \in DOMAIN price_records :
        /\ price_records[i].commodity_id = commodity_id
        /\ price_records[i].market_id = market_id
        /\ price_records[i].record_date = record_date}

\* name.strip().title(): the key of a county, a commodity or a market
Normalize(name) == Title(Strip(name))

\* cache_key of _get_or_create_market
MarketCacheKey(market_name, county_name) ==
    Normalize(market_name) \o <<"_">> \o Normalize(county_name)

----------------------------------------------------------------------------
(* The coordinators.  Each is one process: a KAMISScraper with its own      *)
(* DatabaseManager and cache.  A step is one call to the page source or to  *)
(* the store, together with the local code that runs up to the next call.   *)
(* The fields start_len, scraped, persisted, fetch_failed, fell_back,       *)
(* row_failed, outcomes, submitted, fb and resolved, and the fields "by"    *)
(* and "live" of a row, record history; the program does not read them.     *)

\* the first and the second coordinator
Coordinators == {1, 2}

\* history of the last fallback of _execute_batch_insert: the size of the
\* batch, the rows attempted, those inserted, the value returned (-1: none)
NoFallback == [n |-> 0, tried |-> <<>>, ok |-> {}, ret |-> -1]

Idle ==
    [pc |-> "idle", run |-> 0,
     cache_counties |-> <<>>, cache_commodities |-> <<>>, cache_markets |-> <<>>,
     cat_i |-> 0, products |-> <<>>, pi |-> 0, records |-> <<>>, ri |-> 0,
     batch |-> <<>>, inserted_count |-> 0, total_inserted |-> 0,
     commodity_id |-> 0, market_id |-> 0, county_id |-> 0, category_id |-> 0,
     cat_try |-> <<>>, bi |-> 0, success_count |-> 0, result |-> 0,
     start_len |-> 0, scraped |-> <<>>, persisted |-> <<>>, fetch_failed |-> {},
     fell_back |-> FALSE, row_failed |-> FALSE,
     outcomes |-> <<>>, submitted |-> <<>>, fb |-> NoFallback, resolved |-> {}]

Running(c) == co[c].pc \notin {"idle", "done", "raised", "crashed"}

\* a call to the store or to the page source may raise
MayFail == failures < MaxFailures
Failed == failures' = failures + 1
NotFailed == UNCHANGED failures

Set(c, r) == co' = [co EXCEPT ![c] = r]

\* the record being prepared by insert_price_records
Rec(r) == r.records[r.ri]

\* the locals of one record's preparation, cleared
Cleared(r) == [r EXCEPT !.commodity_id = 0, !.market_id = 0, !.county_id = 0,
                        !.category_id = 0, !.cat_try = <<>>]

\* run, after insert_price_records returned n (or was not called):
\* total_inserted += n, then the next product or the end of the run
NextProduct(r, n) ==
    LET t == [Cleared(r) EXCEPT !.total_inserted = @ + n, !.pi = @ + 1,
                                !.records = <<>>, !.ri = 0, !.batch = <<>>,
                                !.inserted_count = 0, !.bi = 0, !.success_count = 0]
    IN  IF t.pi <= Len(t.products)
        THEN [t EXCEPT !.pc = "scrape"]
        ELSE [t EXCEPT !.pc = "done", !.result = t.total_inserted]

\* history: _get_or_create_market returned an id for the record r.ri, from
\* the cache or not
Resolved(r, id, cached) ==
    [r EXCEPT !.resolved = @ \cup {[market |-> Normalize(Rec(r).market_name),
                                    county |-> Normalize(Rec(r).county_name),
                                    id |-> id, cached |-> cached]}]

\* _get_or_create_market up to its first call to the store
EnterMarket(r) ==
    LET key    == MarketCacheKey(Rec(r).market_name, Rec(r).county_name)
        county == Normalize(Rec(r).county_name)
    IN  IF key \in DOMAIN r.cache_markets
        THEN [Resolved(r, r.cache_markets[key], TRUE)
                 EXCEPT !.market_id = r.cache_markets[key], !.pc = "existing"]
        ELSE IF county \in DOMAIN r.cache_counties
        THEN [r EXCEPT !.county_id = r.cache_counties[county], !.pc = "market_select"]
        ELSE [r EXCEPT !.pc = "county_select"]

\* _get_or_create_commodity up to its first call to the store
EnterCommodity(r) ==
    LET name == Normalize(Rec(r).product_name)
    IN  IF name \in DOMAIN r.cache_commodities
        THEN EnterMarket([r EXCEPT !.commodity_id = r.cache_commodities[name]])
        ELSE [r EXCEPT !.cat_try = CategoriesToTry(name), !.pc = "categorize"]

\* history: what insert_price_records did with the record r.ri, one of
\* "staged", "duplicate" (continue at line 212), "failed" (the except)
Outcome(r, what) ==
    [r EXCEPT !.outcomes = Append(@, [id |-> r.products[r.pi].id, ri |-> r.ri,
                                      what |-> what])]

\* the loop of insert_price_records at record r.ri, and what follows it:
\* the flush of the remainder and the return to run
RecordLoop(r) ==
    IF r.ri <= Len(r.records) THEN EnterCommodity(Cleared(r))
    ELSE IF r.batch # <<>> THEN [Cleared(r) EXCEPT !.pc = "bulk_insert"]
    ELSE NextProduct(r, r.inserted_count)

\* except Exception ... continue, in the loop of insert_price_records
SkipAborts(r) == [r EXCEPT !.pc = "raised"]
SkipRecord(r) == RecordLoop([r EXCEPT !.ri = @ + 1])

\* the row insert_price_records stages for a record
StagedRow(r) ==
    [commodity_id |-> r.commodity_id,
     market_id |-> r.market_id,
     classification |-> Rec(r).classification,
     grade |-> Rec(r).grade,
     sex |-> Rec(r).sex,
     wholesale_price |-> FloatOrNone(Rec(r).wholesale_price),
     retail_price |-> FloatOrNone(Rec(r).retail_price),
     supply_volume |-> FloatOrNone(Rec(r).supply_volume),
     record_date |-> IsoFormat(Rec(r).price_date)]

\* the runs in progress
Live == {co[d].run : d \in {x \in Coordinators : Running(x)}}

\* a staged row as the store keeps it
PriceRow(row, run) ==
    [commodity_id |-> row.commodity_id, market_id |-> row.market_id,
     classification |-> row.classification, grade |-> row.grade, sex |-> row.sex,
     wholesale_price |-> row.wholesale_price, retail_price |-> row.retail_price,
     supply_volume |-> row.supply_volume, record_date |-> row.record_date,
     by |-> run, live |-> Live]

\* the products run goes through
FilterAlways(products) ==
    SelectSeq(products, LAMBDA p : specific_products.given /\ p.name \in specific_products.names)
FilterProducts(products) ==
    IF specific_products.given /\ specific_products.names # {}
    THEN SelectSeq(products, LAMBDA p : p.name \in specific_products.names)
    ELSE products

----------------------------------------------------------------------------
(* Configuration *)

BATCH_SIZE == 100

----------------------------------------------------------------------------
(* The steps of a coordinator *)

\* main: a process starts; KAMISScraper.__init__ and DatabaseManager.__init__
\* up to the first select of _initialize_categories
Start(c) ==
    /\ co[c].pc = "idle"
    /\ singleWriter => /\ \A d \in Coordinators : ~Running(d)
                       /\ \A d \in Coordinators : d < c => co[d].pc # "idle"
    /\ Set(c, [Idle EXCEPT !.pc = "init_category_select", !.run = c,
                           !.cat_i = 1, !.start_len = Len(price_records)])
    /\ UNCHANGED <<storeVars, inputVars, textVars, failures>>

\* the loop of _initialize_categories, after category cat_i
NextCategory(r) ==
    IF r.cat_i < Len(CategoryNames)
    THEN [r EXCEPT !.cat_i = @ + 1, !.pc = "init_category_select"]
    ELSE [r EXCEPT !.cat_i = 0, !.pc = "ready"]

\* _initialize_categories: select the category
InitCategorySelect(c) ==
    /\ co[c].pc = "init_category_select"
    /\ UNCHANGED <<storeVars, inputVars, textVars>>
    /\ \/ /\ NotFailed
          /\ IF SelectByName(commodity_categories, CategoryNames[co[c].cat_i]) # {}
             THEN Set(c, NextCategory(co[c]))
             ELSE Set(c, [co[c] EXCEPT !.pc = "init_category_insert"])
       \/ /\ MayFail /\ Failed
          /\ Set(c, [co[c] EXCEPT !.pc = "crashed"])

\* _initialize_categories: insert the category
InitCategoryInsert(c) ==
    /\ co[c].pc = "init_category_insert"
    /\ UNCHANGED <<counties, commodities, markets, price_records,
                   inputVars, textVars>>
    /\ \/ /\ NotFailed
          /\ commodity_categories' = Append(commodity_categories,
                 [name |-> CategoryNames[co[c].cat_i], by |-> co[c].run, live |-> Live])
          /\ Set(c, NextCategory(co[c]))
       \/ /\ MayFail /\ Failed
          /\ UNCHANGED commodity_categories
          /\ Set(c, [co[c] EXCEPT !.pc = "crashed"])

\* run: get_product_list and the filter
GetProductList(c) ==
    /\ co[c].pc = "ready"
    /\ UNCHANGED <<storeVars, inputVars, textVars>>
    /\ \/ /\ NotFailed
          /\ Set(c, NextProduct([co[c] EXCEPT !.products = FilterProducts(productList),
                                              !.total_inserted = 0, !.pi = 0], 0))
       \/ /\ MayFail /\ Failed
          /\ Set(c, [co[c] EXCEPT !.pc = "raised"])

\* the ScrapedRecords scrape_product builds from a product's page
PageRecords(product) ==
    [i \in 1..Len(pages[product.id]) |->
        [product_name |-> product.name,
         market_name |-> pages[product.id][i].market_name,
         county_name |-> pages[product.id][i].county_name,
         classification |-> pages[product.id][i].classification,
         grade |-> pages[product.id][i].grade,
         sex |-> pages[product.id][i].sex,
         wholesale_price |-> pages[product.id][i].wholesale_price,
         retail_price |-> pages[product.id][i].retail_price,
         supply_volume |-> pages[product.id][i].supply_volume,
         price_date |-> pages[product.id][i].price_date]]

\* run, with the records scrape_product returned: insert_price_records up to
\* its first call to the store when there are any
Scraped(r, records) ==
    IF records # <<>>
    THEN RecordLoop([r EXCEPT !.records = records, !.ri = 1, !.batch = <<>>,
                              !.inserted_count = 0,
                              !.persisted = Append(@, r.products[r.pi].id)])
    ELSE NextProduct(r, 0)

\* scrape_product when the fetch or the extraction raises: return []
ScrapeAborts(r) == [r EXCEPT !.pc = "raised"]
ScrapeFailed(r) == Scraped(r, <<>>)

\* run: scrape_product of product pi
ScrapeProduct(c) ==
    /\ co[c].pc = "scrape"
    /\ UNCHANGED <<storeVars, inputVars, textVars>>
    /\ LET r == [co[c] EXCEPT !.scraped = Append(@, co[c].products[co[c].pi].id)]
       IN  \/ /\ NotFailed
              /\ Set(c, Scraped(r, PageRecords(r.products[r.pi])))
           \/ /\ MayFail /\ Failed
              /\ Set(c, ScrapeFailed([r EXCEPT !.fetch_failed = @ \cup {r.products[r.pi].id}]))

\* _categorize_product: select the next category to try
CategorizeSelect(c) ==
    /\ co[c].pc = "categorize"
    /\ UNCHANGED <<storeVars, inputVars, textVars>>
    /\ LET r   == co[c]
           ids == SelectByName(commodity_categories, Head(r.cat_try))
       IN  \/ /\ NotFailed
              /\ \E id \in (IF ids = {} THEN {0} ELSE ids) :
                    IF id # 0 \/ Len(r.cat_try) = 1
                    THEN Set(c, [r EXCEPT !.category_id = id, !.cat_try = <<>>,
                                          !.pc = "commodity_select"])
                    ELSE Set(c, [r EXCEPT !.cat_try = Tail(@)])
           \/ /\ MayFail /\ Failed
              /\ Set(c, SkipRecord(Outcome(r, "failed")))

\* _get_or_create_commodity with the id found or created
CommodityResolved(r, id) ==
    EnterMarket([r EXCEPT !.commodity_id = id,
                          !.cache_commodities =
                              (Normalize(Rec(r).product_name) :> id) @@ @])

\* _get_or_create_commodity: select the commodity
CommoditySelect(c) ==
    /\ co[c].pc = "commodity_select"
    /\ UNCHANGED <<storeVars, inputVars, textVars>>
    /\ LET r   == co[c]
           ids == SelectByName(commodities, Normalize(Rec(r).product_name))
       IN  \/ /\ NotFailed
              /\ \E id \in (IF ids = {} THEN {0} ELSE ids) :
                    IF id # 0
                    THEN Set(c, CommodityResolved(r, id))
                    ELSE Set(c, [r EXCEPT !.pc = "commodity_insert"])
           \/ /\ MayFail /\ Failed
              /\ Set(c, SkipRecord(Outcome(r, "failed")))

\* _get_or_create_commodity: insert the commodity
CommodityInsert(c) ==
    /\ co[c].pc = "commodity_insert"
    /\ UNCHANGED <<commodity_categories, counties, markets, price_records,
                   inputVars, textVars>>
    /\ LET r == co[c]
       IN  \/ /\ NotFailed
              /\ commodities' = Append(commodities,
                     [name |-> Normalize(Rec(r).product_name),
                      category_id |-> r.category_id, by |-> r.run, live |-> Live])
              /\ Set(c, CommodityResolved(r, Len(commodities) + 1))
           \/ /\ MayFail /\ Failed
              /\ UNCHANGED commodities
              /\ Set(c, SkipRecord(Outcome(r, "failed")))

\* _get_or_create_county with the id found or created
CountyNotCached(r, id) == [r EXCEPT !.county_id = id, !.pc = "market_select"]
CountyResolved(r, id) ==
    [r EXCEPT !.county_id = id,
              !.cache_counties = (Normalize(Rec(r).county_name) :> id) @@ @,
              !.pc = "market_select"]

\* _get_or_create_county: select the county
CountySelect(c) ==
    /\ co[c].pc = "county_select"
    /\ UNCHANGED <<storeVars, inputVars, textVars>>
    /\ LET r   == co[c]
           ids == SelectByName(counties, Normalize(Rec(r).county_name))
       IN  \/ /\ NotFailed
              /\ \E id \in (IF ids = {} THEN {0} ELSE ids) :
                    IF id # 0
                    THEN Set(c, CountyResolved(r, id))
                    ELSE Set(c, [r EXCEPT !.pc = "county_insert"])
           \/ /\ MayFail /\ Failed
              /\ Set(c, SkipRecord(Outcome(r, "failed")))

\* _get_or_create_county: insert the county
CountyInsert(c) ==
    /\ co[c].pc = "county_insert"
    /\ UNCHANGED <<commodity_categories, commodities, markets, price_records,
                   inputVars, textVars>>
    /\ LET r == co[c]
       IN  \/ /\ NotFailed
              /\ counties' = Append(counties,
                     [name |-> Normalize(Rec(r).county_name), by |-> r.run, live |-> Live])
              /\ Set(c, CountyResolved(r, Len(counties) + 1))
           \/ /\ MayFail /\ Failed
              /\ UNCHANGED counties
              /\ Set(c, SkipRecord(Outcome(r, "failed")))

\* _get_or_create_market with the id found or created
MarketResolved(r, id) ==
    [Resolved(r, id, FALSE) EXCEPT !.market_id = id,
              !.cache_markets =
                  (MarketCacheKey(Rec(r).market_name, Rec(r).county_name) :> id) @@ @,
              !.pc = "existing"]

\* _get_or_create_market: select the market
MarketSelect(c) ==
    /\ co[c].pc = "market_select"
    /\ UNCHANGED <<storeVars, inputVars, textVars>>
    /\ LET r   == co[c]
           ids == SelectMarket(Normalize(Rec(r).market_name), r.county_id)
       IN  \/ /\ NotFailed
              /\ \E id \in (IF ids = {} THEN {0} ELSE ids) :
                    IF id # 0
                    THEN Set(c, MarketResolved(r, id))
                    ELSE Set(c, [r EXCEPT !.pc = "market_insert"])
           \/ /\ MayFail /\ Failed
              /\ Set(c, SkipRecord(Outcome(r, "failed")))

\* _get_or_create_market: insert the market
MarketInsert(c) ==
    /\ co[c].pc = "market_insert"
    /\ UNCHANGED <<commodity_categories, counties, commodities, price_records,
                   inputVars, textVars>>
    /\ LET r == co[c]
       IN  \/ /\ NotFailed
              /\ markets' = Append(markets,
                     [name |-> Normalize(Rec(r).market_name),
                      county_id |-> r.county_id, by |-> r.run, live |-> Live])
              /\ Set(c, MarketResolved(r, Len(markets) + 1))
           \/ /\ MayFail /\ Failed
              /\ UNCHANGED markets
              /\ Set(c, SkipRecord(Outcome(r, "failed")))

\* insert_price_records: the record is staged; the batch is flushed when full
StageNoFlush(r) ==
    RecordLoop([Outcome(r, "staged") EXCEPT !.batch = Append(@, StagedRow(r)),
                                            !.ri = @ + 1])
Stage(r) ==
    LET t == [Outcome(r, "staged") EXCEPT !.batch = Append(@, StagedRow(r)),
                                          !.ri = @ + 1]
    IN  IF Len(t.batch) >= BATCH_SIZE
        THEN [Cleared(t) EXCEPT !.pc = "bulk_insert"]
        ELSE RecordLoop(t)

\* insert_price_records: the check for an existing record
ExistingSelect(c) ==
    /\ co[c].pc = "existing"
    /\ UNCHANGED <<storeVars, inputVars, textVars>>
    /\ LET r == co[c]
       IN  \/ /\ NotFailed
              /\ IF SelectPrice(r.commodity_id, r.market_id,
                                IsoFormat(Rec(r).price_date)) # {}
                 THEN Set(c, SkipRecord(Outcome(r, "duplicate")))
                 ELSE Set(c, Stage(r))
           \/ /\ MayFail /\ Failed
              /\ Set(c, SkipRecord(Outcome(r, "failed")))

\* insert_price_records, after _execute_batch_insert returned n
Flushed(r, n) ==
    RecordLoop([r EXCEPT !.inserted_count = @ + n, !.batch = <<>>,
                         !.bi = 0, !.success_count = 0])

\* _execute_batch_insert: the insert of the whole batch
BulkInsert(c) ==
    /\ co[c].pc = "bulk_insert"
    /\ UNCHANGED <<commodity_categories, counties, commodities, markets,
                   inputVars, textVars>>
    /\ LET r == [co[c] EXCEPT !.submitted = Append(@, Len(co[c].batch))]
       IN  \/ /\ NotFailed
              /\ price_records' = price_records \o
                     [i \in 1..Len(r.batch) |-> PriceRow(r.batch[i], r.run)]
              /\ Set(c, Flushed(r, Len(r.batch)))
           \/ /\ MayFail /\ Failed
              /\ UNCHANGED price_records
              /\ Set(c, [r EXCEPT !.fell_back = TRUE, !.success_count = 0,
                                  !.bi = 1, !.pc = "row_insert",
                                  !.fb = [NoFallback EXCEPT !.n = Len(r.batch)]])

\* success_count after one individual insert
CountEveryRow(success_count, inserted) == success_count + 1
CountRow(success_count, inserted) ==
    IF inserted THEN success_count + 1 ELSE success_count

\* the loop of the fallback, after the insert of row bi
NextRowStopsAtFailure(r, inserted) ==
    LET t == [r EXCEPT !.success_count = CountRow(@, inserted), !.bi = @ + 1,
                       !.row_failed = @ \/ ~inserted,
                       !.fb.tried = Append(@, r.bi),
                       !.fb.ok = IF inserted THEN @ \cup {r.bi} ELSE @]
    IN  IF inserted /\ t.bi <= Len(t.batch) THEN t
        ELSE Flushed([t EXCEPT !.fb.ret = t.success_count], t.success_count)
NextRow(r, inserted) ==
    LET t == [r EXCEPT !.success_count = CountRow(@, inserted), !.bi = @ + 1,
                       !.row_failed = @ \/ ~inserted,
                       !.fb.tried = Append(@, r.bi),
                       !.fb.ok = IF inserted THEN @ \cup {r.bi} ELSE @]
    IN  IF t.bi <= Len(t.batch) THEN t
        ELSE Flushed([t EXCEPT !.fb.ret = t.success_count], t.success_count)

\* _execute_batch_insert: the individual insert of row bi of a failed batch
RowInsert(c) ==
    /\ co[c].pc = "row_insert"
    /\ UNCHANGED <<commodity_categories, counties, commodities, markets,
                   inputVars, textVars>>
    /\ LET r == co[c]
       IN  \/ /\ NotFailed
              /\ price_records' = Append(price_records, PriceRow(r.batch[r.bi], r.run))
              /\ Set(c, NextRow(r, TRUE))
           \/ /\ MayFail /\ Failed
              /\ UNCHANGED price_records
              /\ Set(c, NextRow(r, FALSE))

Step(c) ==
    \/ Start(c)
    \/ InitCategorySelect(c)
    \/ InitCategoryInsert(c)
    \/ GetProductList(c)
    \/ ScrapeProduct(c)
    \/ CategorizeSelect(c)
    \/ CommoditySelect(c)
    \/ CommodityInsert(c)
    \/ CountySelect(c)
    \/ CountyInsert(c)
    \/ MarketSelect(c)
    \/ MarketInsert(c)
    \/ ExistingSelect(c)
    \/ BulkInsert(c)
    \/ RowInsert(c)

Next == \E c \in Coordinators : Step(c)

\* the steps of a coordinator when the categories exist and no call raises:
\* the insert of a category and the fallback of a failed batch cannot happen
StepConc(c) ==
    \/ Start(c)
    \/ InitCategorySelect(c)
    \/ GetProductList(c)
    \/ ScrapeProduct(c)
    \/ CategorizeSelect(c)
    \/ CommoditySelect(c)
    \/ CommodityInsert(c)
    \/ CountySelect(c)
    \/ CountyInsert(c)
    \/ MarketSelect(c)
    \/ MarketInsert(c)
    \/ ExistingSelect(c)
    \/ BulkInsert(c)

NextConc == \E c \in Coordinators : StepConc(c)

----------------------------------------------------------------------------
(* The inputs: the pages of the source and the argument of run *)

\* an optional text that is None
NoText == [present |-> FALSE, text |-> <<>>]

ProductPool == <<
    [id |-> 1, name |-> <<"D","r","y"," ","M","a","i","z","e">>],
    [id |-> 2, name |-> <<"W","i","d","g","e","t">>],
    [id |-> 3, name |-> <<"T","i","l","a","p","i","a">>],
    [id |-> 4, name |-> <<"B","e","e","f"," ","T","o","m","a","t","o">>] >>

\* the rows a page may hold, as scrape_product extracts them; the first two
\* differ in case only, and so have the same market and county
RowPool == {
    [market_name |-> <<"W","a","k","u","l","i","m","a">>,
     county_name |-> <<"N","a","i","r","o","b","i">>,
     classification |-> NoText, grade |-> NoText, sex |-> NoText,
     wholesale_price |-> Dec(123450, 2), retail_price |-> None,
     supply_volume |-> Dec(5000, 0), price_date |-> <<2024, 1, 5>>],
    [market_name |-> <<"W","A","K","U","L","I","M","A">>,
     county_name |-> <<"n","a","i","r","o","b","i">>,
     classification |-> NoText, grade |-> NoText, sex |-> NoText,
     wholesale_price |-> Dec(0, 0), retail_price |-> Dec(15, 1),
     supply_volume |-> None, price_date |-> <<2024, 1, 5>>],
    [market_name |-> <<"K","o","n","g","o","w","e","a">>,
     county_name |-> <<"M","o","m","b","a","s","a">>,
     classification |-> NoText, grade |-> NoText, sex |-> NoText,
     wholesale_price |-> None, retail_price |-> Dec(40, 0),
     supply_volume |-> None, price_date |-> <<2024, 1, 5>>] }

\* two rows whose market and county differ and whose names, joined by an
\* underscore, are the same text
UnderscoreRows == <<
    [market_name |-> <<"A","_","B">>, county_name |-> <<"C">>,
     classification |-> NoText, grade |-> NoText, sex |-> NoText,
     wholesale_price |-> None, retail_price |-> Dec(40, 0),
     supply_volume |-> None, price_date |-> <<2024, 1, 5>>],
    [market_name |-> <<"A">>, county_name |-> <<"B","_","C">>,
     classification |-> NoText, grade |-> NoText, sex |-> NoText,
     wholesale_price |-> None, retail_price |-> Dec(45, 0),
     supply_volume |-> None, price_date |-> <<2024, 1, 5>>] >>

ProductLists == {SubSeq(ProductPool, 1, n) : n \in 0..MaxProducts}

ProductIds(products) == {products[i].id : i \in 1..Len(products)}

\* the rows of the pool whose names are spelled as the store keeps them
PlainRows == {row \in RowPool : Normalize(row.market_name) = row.market_name}

\* one row of the pool, for the pages of one row
OneRow == CHOOSE row \in PlainRows : TRUE

\* specific_products: None, an empty list, a list of one name
NoFilter == [given |-> FALSE, names |-> {}]
Filters == {NoFilter,
            [given |-> TRUE, names |-> {}],
            [given |-> TRUE, names |-> {ProductPool[2].name}]}

\* the inputs: one product with any page of up to MaxRecords rows, or up to
\* MaxProducts products with pages of one row at most and any filter, or one
\* of the last products of the pool with a page of one row, or one product
\* with the page of the two rows with underscores
InitInputs ==
    \/ /\ productList = SubSeq(ProductPool, 1, 1)
       /\ pages \in [ProductIds(productList) -> TextsUpTo(RowPool, MaxRecords)]
       /\ specific_products = NoFilter
    \/ /\ productList \in ProductLists
       /\ pages \in [ProductIds(productList) -> {<<>>, <<OneRow>>}]
       /\ specific_products \in Filters
    \/ /\ productList \in {<<ProductPool[k]>> : k \in {3, 4}}
       /\ pages \in [ProductIds(productList) -> {<<OneRow>>}]
       /\ specific_products = NoFilter
    \/ /\ productList = SubSeq(ProductPool, 1, 1)
       /\ pages \in [ProductIds(productList) -> {UnderscoreRows}]
       /\ specific_products = NoFilter

NoOut == [op |-> "none", dec |-> None, pair |-> <<>>, idx |-> <<>>,
          date |-> NoDate, today |-> NoDate, records |-> <<>>, raised |-> FALSE]

InitStore ==
    /\ counties = <<>>
    /\ commodities = <<>>
    /\ markets = <<>>
    /\ price_records = <<>>

\* the categories as an earlier coordinator left them
SeededCategories ==
    [i \in 1..Len(CategoryNames) |-> [name |-> CategoryNames[i], by |-> 0, live |-> {}]]

\* the inputs of the coordinators that run simultaneously: one product
\* with any page of up to MaxRecords plain rows
InitInputsConc ==
    /\ productList = SubSeq(ProductPool, 1, 1)
    /\ pages \in [ProductIds(productList) -> TextsUpTo(PlainRows, MaxRecords)]
    /\ specific_products = NoFilter

InitRuns ==
    /\ co = [c \in Coordinators |-> Idle]
    /\ out = NoOut

NoTexts ==
    /\ text = <<>>
    /\ rawHeaders = <<>>
    /\ rawRows = <<>>

\* one coordinator at a time: a run starts when no other is in progress
Init ==
    /\ InitRuns
    /\ InitInputs
    /\ NoTexts
    /\ InitStore
    /\ commodity_categories = <<>>
    /\ singleWriter = TRUE
    /\ failures = 0

\* coordinators that run simultaneously against the same store, in which an
\* earlier coordinator created the categories; no call raises
InitConc ==
    /\ InitRuns
    /\ InitInputsConc
    /\ NoTexts
    /\ InitStore
    /\ commodity_categories = SeededCategories
    /\ singleWriter = FALSE
    /\ failures = MaxFailures

\* a page of n rows of one market, each with a date of its own
LongPage(n) == [i \in 1..n |-> [OneRow EXCEPT !.price_date = <<2000 + i, 1, 5>>]]

\* the numbers of rows around one batch and beyond two
PageSizes == {BATCH_SIZE - 1, BATCH_SIZE, BATCH_SIZE + 1, 2 * BATCH_SIZE + 1}

\* one coordinator at a time on one product with a long page, the categories
\* in the store; no call raises
InitBatch ==
    /\ InitRuns
    /\ NoTexts
    /\ InitStore
    /\ commodity_categories = SeededCategories
    /\ productList = SubSeq(ProductPool, 1, 1)
    /\ pages \in [ProductIds(productList) -> {LongPage(n) : n \in PageSizes}]
    /\ specific_products = NoFilter
    /\ singleWriter = TRUE
    /\ failures = MaxFailures

Spec == Init /\ [][Next]_vars

SpecBatch == InitBatch /\ [][NextConc]_vars

SpecConc == InitConc /\ [][NextConc]_vars

----------------------------------------------------------------------------
(* scrape_product: the records of a table, from the texts of its header    *)
(* cells and of the cells of its rows                                       *)

\* a row scrape_product skips: fewer than 3 cells
NeverMalformed(cells) == FALSE
IsMalformed(cells) == Len(cells) < 3

\* cells[i].get_text(strip=True) if i >= 0 else default
CellOr(cells, i, default) == IF i >= 0 THEN Strip(cells[i + 1]) ELSE default

\* cells[i].get_text(strip=True) if i >= 0 else None
CellOrNone(cells, i) ==
    IF i >= 0 THEN [present |-> TRUE, text |-> Strip(cells[i + 1])] ELSE NoText

\* county_name or "Unknown"
CountyOrUnknown(county_name) == IF county_name = <<>> THEN Unknown ELSE county_name

\* the ScrapedRecord of one row
RowRecord(product_name, idx_map, cells, today) ==
    LET market_text == CellOr(cells, idx_map.market, <<>>)
        resolved    == ExtractCountyFromMarket(market_text)
        market_name == IF idx_map.county >= 0 THEN market_text ELSE resolved[1]
        county_name == IF idx_map.county >= 0
                       THEN Strip(cells[idx_map.county + 1]) ELSE resolved[2]
        date_text   == CellOr(cells, idx_map.date, IsoFormat(today))
    IN  [product_name |-> product_name,
         market_name |-> market_name,
         county_name |-> CountyOrUnknown(county_name),
         classification |-> CellOrNone(cells, idx_map.classification),
         grade |-> CellOrNone(cells, idx_map.grade),
         sex |-> CellOrNone(cells, idx_map.sex),
         wholesale_price |-> ParsePrice(CellOr(cells, idx_map.wholesale, <<>>)),
         retail_price |-> ParsePrice(CellOr(cells, idx_map.retail, <<>>)),
         supply_volume |-> ParseVolume(CellOr(cells, idx_map.volume, <<>>)),
         price_date |-> ParseDate(date_text, today)]

\* scrape_product from the headers on: the rows that are not skipped give one
\* record each, in order; a cell index beyond the cells of such a row raises
\* IndexError, which the except turns into no record at all
ExtractRecords(product_name, raw_headers, rows, today) ==
    LET idx_map == IdxMap(HeaderTexts(raw_headers))
        kept    == SelectSeq(rows, LAMBDA cells : ~IsMalformed(cells))
        raises(cells) == \E f \in Fields : idx_map[f] >= Len(cells)
    IN  IF \E k \in 1..Len(kept) : raises(kept[k])
        THEN [raised |-> TRUE, records |-> <<>>]
        ELSE [raised |-> FALSE,
              records |-> [k \in 1..Len(kept) |->
                              RowRecord(product_name, idx_map, kept[k], today)]]

----------------------------------------------------------------------------
(* The text operations, applied to generated texts, header rows and tables: *)
(* each step applies one operation to the input and keeps its result        *)

T_Price    == <<"K","s","h"," ","1",",","2","3","4",".","5","0">>
T_Volume   == <<"5",",","0","0","0"," ","k","g">>
T_High     == <<"H","i","g","h">>
T_Wakulima == <<"W","a","k","u","l","i","m","a"," ","-"," ","N","a","i","r","o","b","i">>
T_Kongowea == <<"K","o","n","g","o","w","e","a"," ","(","M","o","m","b","a","s","a",")">>
T_Unnamed  == <<"U","n","n","a","m","e","d"," ","M","a","r","k","e","t">>
T_EnDash   == <<"W","a","k","u","l","i","m","a"," ",EN_DASH," ","N","a","i","r","o","b","i">>

H_Example == << <<"M","a","r","k","e","t"," ","N","a","m","e">>,
                <<"C","o","u","n","t","y">>,
                <<"W","h","o","l","e","s","a","l","e"," ","P","r","i","c","e">>,
                <<"R","e","t","a","i","l"," ","P","r","i","c","e">>,
                <<"S","u","p","p","l","y"," ","V","o","l","u","m","e">>,
                <<"D","a","t","e">> >>

NumberAlphabet == {"0", "1", ".", ",", "-", "K"}
NameAlphabet   == {"a", " ", "-", "(", ")", ",", EN_DASH, A_CIRC}

Texts ==
    TextsUpTo(NumberAlphabet, MaxLen) \cup TextsUpTo(NameAlphabet, MaxLen)
    \cup {T_Price, T_Volume, T_High, <<"N","/","A">>,
          T_Wakulima, T_Kongowea, T_Unnamed, T_EnDash}

HeaderPool == {<<"M","a","r","k","e","t">>,
               <<"C","o","u","n","t","y">>,
               <<"P","r","i","c","e">>,
               <<"R","e","t","a","i","l"," ","P","r","i","c","e">>,
               <<"W","h","o","l","e","s","a","l","e">>,
               <<"V","o","l","u","m","e">>,
               <<"T","y","p","e">>,
               <<"D","a","t","e">>}

\* texts of dates: three parts with a separator, the year first or last
DateYears == {<<"2","0","2","4">>, <<"2","0","2","3">>, <<"0","0","0","0">>}
DateParts == {<<"1">>, <<"0","2">>, <<"2">>, <<"1","2">>, <<"1","3">>, <<"2","9">>, <<"3","1">>, <<"0">>}
DateSeps  == {"-", "/"}
DateTexts ==
    {y \o <<"-">> \o a \o <<"-">> \o b : y \in DateYears, a \in DateParts, b \in DateParts}
    \cup {a \o <<sep>> \o b \o <<sep>> \o y :
             a \in DateParts, b \in DateParts, y \in DateYears, sep \in DateSeps}
    \cup {<<"t","o","d","a","y">>, <<" ","0","5","/","0","1","/","2","0","2","4"," ">>, <<"2","0","2","4","/","0","1","/","0","5">>, <<"5","-","1","-","2","4">>, <<"1","/","2">>, <<"1","/","2","/","2","0","2","4","/","5">>}

\* the days the texts are parsed on
Todays == {<<2024, 2, 29>>, <<2025, 12, 31>>}

\* header rows and rows of cells of the tables
TableHeaders == {
    <<>>,
    << <<"M","a","r","k","e","t">>, <<"C","o","u","n","t","y">>, <<"D","a","t","e">> >>,
    << <<"M","a","r","k","e","t">>, <<"P","r","i","c","e">>, <<"D","a","t","e">> >>,
    << <<"C","o","u","n","t","y">>, <<"P","r","i","c","e">>, <<"D","a","t","e">> >>,
    << <<"M","a","r","k","e","t">>, <<"C","o","u","n","t","y">>, <<"P","r","i","c","e">>, <<"D","a","t","e">> >> }

TableRowPool == {
    << <<"W","a","k","u","l","i","m","a">> >>,
    << <<"W","a","k","u","l","i","m","a">>, <<"N","a","i","r","o","b","i">> >>,
    << <<"W","a","k","u","l","i","m","a">>, <<"N","a","i","r","o","b","i">>, <<"2","0","2","4","-","0","1","-","0","5">> >>,
    << <<"K","o","n","g","o","w","e","a"," ","(","M","o","m","b","a","s","a",")">>, <<"4","0">>, <<"0","5","/","0","1","/","2","0","2","4">> >>,
    << <<>>, <<>>, <<"0","1","/","1","3","/","2","0","2","4">> >>,
    << <<" ","K","o","n","g","o","w","e","a"," ">>, <<"M","o","m","b","a","s","a">>, <<"1",",","2","3","4",".","5","0">>, <<"x">> >> }

InitText ==
    /\ InitRuns
    /\ InitStore
    /\ commodity_categories = <<>>
    /\ productList = <<>>
    /\ pages = <<>>
    /\ specific_products = NoFilter
    /\ singleWriter = TRUE
    /\ failures = 0
    /\ \/ text \in Texts \cup DateTexts /\ rawHeaders = H_Example /\ rawRows = <<>>
       \/ text = <<>> /\ rawHeaders \in TextsUpTo(HeaderPool, MaxHeaders) /\ rawRows = <<>>
       \/ text = <<>> /\ rawHeaders \in TableHeaders
                      /\ rawRows \in TextsUpTo(TableRowPool, MaxRecords)

\* _parse_price(text)
DoParsePrice ==
    /\ out = NoOut
    /\ out' = [NoOut EXCEPT !.op = "price", !.dec = ParsePrice(text)]
    /\ UNCHANGED <<storeVars, inputVars, co, failures, text, rawHeaders, rawRows>>

\* _parse_volume(text)
DoParseVolume ==
    /\ out = NoOut
    /\ out' = [NoOut EXCEPT !.op = "volume", !.dec = ParseVolume(text)]
    /\ UNCHANGED <<storeVars, inputVars, co, failures, text, rawHeaders, rawRows>>

\* _extract_county_from_market(text)
DoResolve ==
    /\ out = NoOut
    /\ out' = [NoOut EXCEPT !.op = "resolve", !.pair = ExtractCountyFromMarket(text)]
    /\ UNCHANGED <<storeVars, inputVars, co, failures, text, rawHeaders, rawRows>>

\* the headers and the idx_map of scrape_product
DoMapHeaders ==
    /\ out = NoOut
    /\ out' = [NoOut EXCEPT !.op = "headers", !.idx = IdxMap(HeaderTexts(rawHeaders))]
    /\ UNCHANGED <<storeVars, inputVars, co, failures, text, rawHeaders, rawRows>>

\* _parse_date(text) on some day
DoParseDate ==
    /\ out = NoOut
    /\ \E today \in Todays :
          out' = [NoOut EXCEPT !.op = "date", !.today = today,
                               !.date = ParseDate(text, today)]
    /\ UNCHANGED <<storeVars, inputVars, co, failures, text, rawHeaders, rawRows>>

\* scrape_product of the first product of the pool, from the headers of its
\* table on, on some day
DoExtract ==
    /\ out = NoOut
    /\ \E today \in Todays :
          LET res == ExtractRecords(ProductPool[1].name, rawHeaders, rawRows, today)
          IN  out' = [NoOut EXCEPT !.op = "extract", !.today = today,
                                   !.raised = res.raised, !.records = res.records]
    /\ UNCHANGED <<storeVars, inputVars, co, failures, text, rawHeaders, rawRows>>

NextText ==
    \/ DoParsePrice \/ DoParseVolume \/ DoResolve \/ DoMapHeaders
    \/ DoParseDate \/ DoExtract

SpecText == InitText /\ [][NextText]_vars

----------------------------------------------------------------------------
(* The claims about the runs *)

PriceKey(row) == <<row.commodity_id, row.market_id, row.record_date>>

\* the rows of price_records a coordinator added
RowsBy(c) == {j \in DOMAIN price_records : price_records[j].by = c}

Finished(c) == co[c].pc = "done"

\* C1: under single-writer execution price_records holds at most one row for
\* any (commodity_id, market_id, record_date), whatever list
\* insert_price_records processed, also a list in which two records have the
\* same normalized names, county and date.
C1_OneRowPerKey ==
    \A i, j \in DOMAIN price_records :
        PriceKey(price_records[i]) = PriceKey(price_records[j]) => i = j

\* C2: a run that starts with a fresh cache against the store an earlier run
\* left inserts no record whose (commodity, market, date) key was in
\* price_records when it started: every row it adds has a key that no row
\* present at its start has.
C2_SecondRunSkipsPresentKeys ==
    \A c \in Coordinators : \A j \in RowsBy(c) : \A i \in 1..co[c].start_len :
        PriceKey(price_records[i]) # PriceKey(price_records[j])

\* the second run went through insert_price_records on the snapshot of the
\* first, with rows in the store, and added none
C2_Witness ==
    /\ Finished(1) /\ Finished(2)
    /\ failures = 0
    /\ co[2].start_len > 0
    /\ co[2].persisted # <<>>
    /\ co[2].result = 0
    /\ Len(price_records) = co[2].start_len

\* C3: the integer run returns is the number of rows the run added to
\* price_records, over all products, whether the bulk inserts succeed or
\* fail into the per-row fallback and whatever records are skipped or fail;
\* at every point of a run the count so far is the number of rows added so
\* far, so a failed insert never increases it.
C3_CountIsRowsAdded ==
    \A c \in Coordinators :
        /\ Running(c) \/ Finished(c) =>
              co[c].total_inserted + co[c].inserted_count + co[c].success_count
                  = Cardinality(RowsBy(c))
        /\ Finished(c) => co[c].result = Cardinality(RowsBy(c))

\* a run returned after a bulk insert failed and, in the fallback, one row
\* was inserted and another failed
C3_Witness ==
    \E c \in Coordinators :
        /\ Finished(c)
        /\ co[c].fell_back /\ co[c].row_failed
        /\ co[c].result >= 1

\* the ids of a list of products
Ids(products) == [i \in 1..Len(products) |-> products[i].id]

\* C4: when the fetch of the product list fails, run raises and nothing was
\* scraped or inserted; when run returns, every product of the (filtered)
\* list was scraped, in order, and insert_price_records was called for
\* exactly those whose scrape did not fail and whose page has rows: a
\* product whose scrape failed yields no record and the later products are
\* still extracted and persisted.
C4_OnlyListFetchIsFatal ==
    \A c \in Coordinators :
        /\ co[c].pc = "raised" =>
              /\ co[c].scraped = <<>>
              /\ RowsBy(c) = {}
        /\ Finished(c) =>
              /\ co[c].scraped = Ids(FilterProducts(productList))
              /\ co[c].persisted =
                     SelectSeq(co[c].scraped,
                               LAMBDA id : id \notin co[c].fetch_failed /\ pages[id] # <<>>)

\* a run returned in which the scrape of the first product failed and the
\* second product was extracted and its record inserted
C4_Witness ==
    \E c \in Coordinators :
        /\ Finished(c)
        /\ Len(co[c].scraped) = 2
        /\ co[c].scraped[1] \in co[c].fetch_failed
        /\ co[c].persisted = <<co[c].scraped[2]>>
        /\ co[c].result = 1

\* two rows of a table that have the same key
SameName(table, i, j) == table[i].name = table[j].name
SameMarket(i, j) ==
    markets[i].name = markets[j].name /\ markets[i].county_id = markets[j].county_id
SamePrice(i, j) == PriceKey(price_records[i]) = PriceKey(price_records[j])

\* the later of two rows was inserted by another coordinator, one that was
\* already running when the earlier row was inserted
Raced(table, i, j) == table[j].by # table[i].by /\ table[j].by \in table[i].live

\* C5: when two coordinators run simultaneously against the same store, the
\* check-then-insert steps interleave so that two reference rows with the
\* same normalized key, or two price_records rows with the same
\* (commodity_id, market_id, record_date), exist (C5_Witness is such a
\* state); and two reference rows with the same key always come from such
\* an interleaving: two coordinators, the second already running when the
\* first inserted its row.
C5_DuplicatesComeFromRaces ==
    /\ \A i, j \in DOMAIN counties :
          i < j /\ SameName(counties, i, j) => Raced(counties, i, j)
    /\ \A i, j \in DOMAIN commodities :
          i < j /\ SameName(commodities, i, j) => Raced(commodities, i, j)
    /\ \A i, j \in DOMAIN markets :
          i < j /\ SameMarket(i, j) => Raced(markets, i, j)
    /\ \A i, j \in DOMAIN price_records :
          i < j /\ SamePrice(i, j) /\ price_records[i].by # price_records[j].by
              => Raced(price_records, i, j)

\* two county rows with the same name and two price rows with the same key,
\* each pair inserted by the two coordinators
C5_Witness ==
    /\ \E i, j \in DOMAIN counties :
          i < j /\ SameName(counties, i, j) /\ counties[i].by # counties[j].by
    /\ \E i, j \in DOMAIN price_records :
          i < j /\ SamePrice(i, j) /\ price_records[i].by # price_records[j].by

\* C6: under single-writer execution, after any sequence of runs, each with
\* its own empty cache, the store holds at most one category row per name,
\* one county row per normalized name, one commodity row per normalized name
\* and one market row per (normalized name, county id).
C6_OneReferenceRowPerKey ==
    /\ \A i, j \in DOMAIN commodity_categories :
          SameName(commodity_categories, i, j) => i = j
    /\ \A i, j \in DOMAIN counties : SameName(counties, i, j) => i = j
    /\ \A i, j \in DOMAIN commodities : SameName(commodities, i, j) => i = j
    /\ \A i, j \in DOMAIN markets : SameMarket(i, j) => i = j

\* both runs returned, the second having resolved the references of a
\* record against the rows the first created
C6_Witness ==
    /\ Finished(1) /\ Finished(2)
    /\ co[1].persisted # <<>> /\ co[2].persisted # <<>>
    /\ Len(commodity_categories) = Len(CategoryNames)
    /\ Len(counties) >= 1 /\ Len(commodities) >= 1 /\ Len(markets) >= 1
    /\ co[2].cache_markets # <<>>
    /\ \A i \in DOMAIN markets : markets[i].by = 1

\* the category the keywords give a name: the first of category_map, in its
\* order, with a keyword in the lower-cased name, else 'Other'
FirstCategory(name) ==
    LET hits == {k \in 1..Len(CategoryMap) :
                    \E kw \in CategoryMap[k].keywords : Contains(Lower(name), kw)}
    IN  IF hits = {} THEN "Other"
        ELSE CategoryMap[CHOOSE k \in hits : \A h \in hits : k <= h].category

\* that category, for each product of the pool
PoolCategory == [k \in 1..Len(ProductPool) |-> FirstCategory(ProductPool[k].name)]

CategoryOf(i) == commodity_categories[commodities[i].category_id].name

\* C11: the category id a commodity is created with is the id of the first
\* category, in the order Grains, Vegetables, Fruits, Livestock, Fish, that
\* has a keyword contained in the lower-cased commodity name, and the id of
\* "Other" when no keyword matches; "Dry Maize" is Grains, "Widget" is Other.
C11_FirstMatchingCategory ==
    /\ \A i \in DOMAIN commodities :
          /\ commodities[i].category_id \in DOMAIN commodity_categories
          /\ commodities[i].name = ProductPool[1].name => CategoryOf(i) = "Grains"
          /\ commodities[i].name = ProductPool[2].name => CategoryOf(i) = "Other"
          /\ commodities[i].name = ProductPool[4].name => CategoryOf(i) = "Vegetables"
    /\ \A c \in Coordinators :
          co[c].pc \in {"commodity_select", "commodity_insert"} =>
              /\ co[c].category_id \in DOMAIN commodity_categories
              /\ commodity_categories[co[c].category_id].name
                     = PoolCategory[co[c].products[co[c].pi].id]

\* "Dry Maize" and "Widget" were categorized and their commodities created
C11_Witness ==
    /\ \E i \in DOMAIN commodities :
          commodities[i].name = ProductPool[1].name /\ CategoryOf(i) = "Grains"
    /\ \E i \in DOMAIN commodities :
          commodities[i].name = ProductPool[2].name /\ CategoryOf(i) = "Other"

\* history: the records a coordinator staged, the rows its bulk inserts carried
StagedCount(c) == Len(SelectSeq(co[c].outcomes, LAMBDA o : o.what = "staged"))

RECURSIVE SumOf(_)
SumOf(q) == IF q = <<>> THEN 0 ELSE Head(q) + SumOf(Tail(q))

\* C14: every staged record is submitted in exactly one bulk insert: the
\* batch is flushed as soon as it holds 100 rows, so no bulk insert carries
\* more than 100 rows, and the remainder is flushed before
\* insert_price_records returns, so no staged record is left unsubmitted.
C14_StagedRowsSubmittedOnce ==
    \A c \in Coordinators :
        /\ \A k \in DOMAIN co[c].submitted : co[c].submitted[k] \in 1..BATCH_SIZE
        /\ Len(co[c].batch) >= BATCH_SIZE => co[c].pc \in {"bulk_insert", "row_insert"}
        /\ co[c].pc # "row_insert" =>
              SumOf(co[c].submitted) + Len(co[c].batch) = StagedCount(c)
        /\ co[c].pc \in {"scrape", "done"} =>
              /\ co[c].batch = <<>>
              /\ SumOf(co[c].submitted) = StagedCount(c)

\* a run returned after two full batches and a remainder of one row
C14_Witness ==
    /\ Finished(1)
    /\ co[1].submitted = <<BATCH_SIZE, BATCH_SIZE, 1>>
    /\ Len(price_records) = 2 * BATCH_SIZE + 1

\* the sequence 1, 2, .., n
UpTo(n) == [k \in 1..n |-> k]

\* C15: when the bulk insert of a batch fails, every row of the batch is then
\* attempted individually exactly once, in batch order, whether or not an
\* earlier individual insert failed, and the value returned for the batch is
\* the number of individual inserts that succeeded.
C15_FallbackTriesEveryRowOnce ==
    \A c \in Coordinators :
        LET f == co[c].fb
        IN  /\ co[c].pc = "row_insert" =>
                  /\ f.n = Len(co[c].batch)
                  /\ co[c].bi \in 1..f.n
                  /\ f.tried = UpTo(co[c].bi - 1)
                  /\ f.ret = -1
            /\ f.ret # -1 =>
                  /\ f.tried = UpTo(f.n)
                  /\ f.ret = Cardinality(f.ok)
            /\ f.ok \subseteq 1..Len(f.tried)
            /\ co[c].pc = "row_insert" => co[c].success_count = Cardinality(f.ok)

\* a fallback returned 1 for a batch of two rows: the first individual
\* insert failed and the second was still attempted, and succeeded
C15_Witness ==
    \E c \in Coordinators :
        /\ co[c].fb.n = 2
        /\ co[c].fb.ok = {2}
        /\ co[c].fb.ret = 1

\* the steps of insert_price_records that prepare a record
Preparing == {"categorize", "commodity_select", "commodity_insert",
              "county_select", "county_insert", "market_select", "market_insert",
              "existing"}

\* history: what was done with the records of a product, in order
OutcomesOf(c, id) == SelectSeq(co[c].outcomes, LAMBDA o : o.id = id)

\* C16: when resolving the commodity or the market, or the existence check,
\* fails for a record, the record is neither staged nor inserted, the records
\* staged before it stay staged, every later record of the list is still
\* processed and insert_price_records returns without raising: every record
\* before the current one has one outcome, in order; after the return every
\* record of the list has one; a run that handled a record has not raised;
\* and the rows inserted and staged are never more than the records staged.
C16_FailedRecordIsSkipped ==
    \A c \in Coordinators :
        /\ co[c].pc \in Preparing =>
              /\ co[c].ri \in 1..Len(co[c].records)
              /\ LET done == OutcomesOf(c, co[c].products[co[c].pi].id)
                 IN  [k \in 1..Len(done) |-> done[k].ri] = UpTo(co[c].ri - 1)
        /\ co[c].pc \in {"scrape", "done"} =>
              \A k \in DOMAIN co[c].persisted :
                  LET done == OutcomesOf(c, co[c].persisted[k])
                  IN  [j \in 1..Len(done) |-> done[j].ri]
                          = UpTo(Len(pages[co[c].persisted[k]]))
        /\ co[c].pc \in {"raised", "crashed"} => co[c].outcomes = <<>>
        /\ Cardinality(RowsBy(c))
               + (IF co[c].pc = "row_insert" THEN 0 ELSE Len(co[c].batch))
               <= StagedCount(c)
        /\ co[c].pc \in Preparing \cup {"bulk_insert"} =>
              Len(co[c].batch) =
                  Len(SelectSeq(OutcomesOf(c, co[c].products[co[c].pi].id),
                                LAMBDA o : o.what = "staged"))

\* the outcomes of a run, in order
Whats(c) == [k \in 1..Len(co[c].outcomes) |-> co[c].outcomes[k].what]

\* two runs returned 1: in the first the first record failed and the second
\* was staged, in the second the first was staged and the second failed
C16_Witness ==
    /\ Finished(1) /\ Finished(2)
    /\ Whats(1) = <<"failed", "staged">>
    /\ Whats(2) = <<"staged", "failed">>
    /\ co[1].result = 1 /\ co[2].result = 1

\* the caches of a coordinator hold, for a key, the id of a row of that key
CacheOfStore(c) ==
    /\ \A key \in DOMAIN co[c].cache_counties :
          /\ co[c].cache_counties[key] \in DOMAIN counties
          /\ counties[co[c].cache_counties[key]].name = key
    /\ \A key \in DOMAIN co[c].cache_commodities :
          /\ co[c].cache_commodities[key] \in DOMAIN commodities
          /\ commodities[co[c].cache_commodities[key]].name = key
    /\ \A key \in DOMAIN co[c].cache_markets :
          LET id == co[c].cache_markets[key]
          IN  /\ id \in DOMAIN markets
              /\ markets[id].county_id \in DOMAIN counties
              /\ markets[id].name \o <<"_">> \o counties[markets[id].county_id].name = key

\* a coordinator calls the store for a key only when its cache has no entry
\* for it, and holds an entry for every key it has resolved
CacheBeforeStore(c) ==
    LET r      == co[c]
        name   == Normalize(Rec(r).product_name)
        county == Normalize(Rec(r).county_name)
        key    == MarketCacheKey(Rec(r).market_name, Rec(r).county_name)
    IN  /\ r.pc \in {"categorize", "commodity_select", "commodity_insert"} =>
              name \notin DOMAIN r.cache_commodities
        /\ r.pc \in {"county_select", "county_insert"} =>
              county \notin DOMAIN r.cache_counties
        /\ r.pc \in {"county_select", "county_insert", "market_select", "market_insert"} =>
              /\ key \notin DOMAIN r.cache_markets
              /\ name \in DOMAIN r.cache_commodities
              /\ r.cache_commodities[name] = r.commodity_id
        /\ r.pc \in {"market_select", "market_insert"} =>
              /\ county \in DOMAIN r.cache_counties
              /\ r.cache_counties[county] = r.county_id
        /\ r.pc = "existing" =>
              /\ name \in DOMAIN r.cache_commodities
              /\ r.cache_commodities[name] = r.commodity_id
              /\ key \in DOMAIN r.cache_markets
              /\ r.cache_markets[key] = r.market_id

C17_CacheState == \A c \in Coordinators : CacheOfStore(c) /\ CacheBeforeStore(c)

\* an entry of a cache keeps its id to the end of the run
Kept(old, new) == \A key \in DOMAIN old : key \in DOMAIN new /\ new[key] = old[key]

\* in a step of a run the entries of its caches are kept, and a step in which
\* a call raised writes no entry
C17_CacheStep ==
    \A c \in Coordinators :
        co[c].pc # "idle" =>
            /\ Kept(co[c].cache_counties, co'[c].cache_counties)
            /\ Kept(co[c].cache_commodities, co'[c].cache_commodities)
            /\ Kept(co[c].cache_markets, co'[c].cache_markets)
            /\ failures' # failures =>
                  /\ co'[c].cache_counties = co[c].cache_counties
                  /\ co'[c].cache_commodities = co[c].cache_commodities
                  /\ co'[c].cache_markets = co[c].cache_markets

\* C17: within one run, once lookup-or-create has resolved a county, a
\* commodity or a market, every later resolution of the same normalized key
\* returns the same id without a call to the store; a cache entry is only
\* written with the id of a row of the store found or inserted for that key,
\* and a failed resolution writes no entry.
C17_CacheIsStable == []C17_CacheState /\ [][C17_CacheStep]_vars

\* a run returned that resolved the market of its second record from the cache
C17_Witness ==
    \E c \in Coordinators :
        /\ Finished(c)
        /\ \E x \in co[c].resolved : x.cached
        /\ Len(markets) = 1
        /\ Whats(c) = <<"staged", "staged">>

\* C20: for any sequence of _get_or_create_market calls in one run, the id
\* returned for (market, county) is the id of a markets row whose name is
\* the normalized market name and whose county_id is the id of the
\* normalized county, and two inputs whose normalized (market, county) pairs
\* differ never receive the same id, also when a name holds an underscore.
C20_MarketIdOfItsPair ==
    \A c \in Coordinators :
        /\ \A x \in co[c].resolved :
              /\ markets[x.id].name = x.market
              /\ counties[markets[x.id].county_id].name = x.county
        /\ \A x, y \in co[c].resolved :
              x.id = y.id => x.market = y.market /\ x.county = y.county

\* the position in the product list of the product with an id
IndexOfId(id) == (CHOOSE i \in DOMAIN productList : productList[i].id = id)

\* C13: whenever a filter is given to run, whatever its size, also an empty
\* one, only products whose name is in the filter are scraped and persisted:
\* a product whose name is not in the filter causes no fetch and no insert.
C13_OnlyFilteredProducts ==
    specific_products.given =>
        \A c \in Coordinators :
            \A k \in DOMAIN co[c].scraped :
                productList[IndexOfId(co[c].scraped[k])].name \in specific_products.names

\* a numeric field carried as it is: absent stays absent, a present decimal
\* becomes the float of the same value
Carried(x) == IF x.ok THEN Float(x) ELSE None

\* history: the records of the current call of insert_price_records that
\* were staged, in the order they were staged
StagedOf(c) ==
    SelectSeq(co[c].outcomes,
              LAMBDA o : o.what = "staged" /\ o.id = co[c].products[co[c].pi].id)

\* the record the k-th row of the batch was staged for: the batch holds the
\* rows staged last
RecordOfRow(c, k) ==
    co[c].records[StagedOf(c)[Len(StagedOf(c)) - Len(co[c].batch) + k].ri]

\* C21: each row staged for price_records carries the wholesale_price,
\* retail_price and supply_volume of its record unchanged in presence and
\* value: an absent field is staged as absent, and a present field, also one
\* whose value is zero, is staged as present with the same value.
C21_StagedNumbersUnchanged ==
    \A c \in Coordinators :
        \A k \in DOMAIN co[c].batch :
            /\ co[c].batch[k].wholesale_price = Carried(RecordOfRow(c, k).wholesale_price)
            /\ co[c].batch[k].retail_price = Carried(RecordOfRow(c, k).retail_price)
            /\ co[c].batch[k].supply_volume = Carried(RecordOfRow(c, k).supply_volume)

\* the same for the fields that are absent or not zero, which the code does
\* carry unchanged
C21_NonZeroNumbersUnchanged ==
    \A c \in Coordinators :
        \A k \in DOMAIN co[c].batch :
            LET rec == RecordOfRow(c, k)
                Same(x, y) == (x.ok /\ x.m = 0) \/ y = Carried(x)
            IN  /\ Same(rec.wholesale_price, co[c].batch[k].wholesale_price)
                /\ Same(rec.retail_price, co[c].batch[k].retail_price)
                /\ Same(rec.supply_volume, co[c].batch[k].supply_volume)

\* a staged row whose record has a wholesale price of zero
C21_ZeroStaged ==
    \E c \in Coordinators :
        \E k \in DOMAIN co[c].batch :
            /\ RecordOfRow(c, k).wholesale_price = Dec(0, 0)
            /\ co[c].batch[k].wholesale_price = None

----------------------------------------------------------------------------
(* The claims about the text operations *)

\* C7: for the header row "Market Name", "County", "Wholesale Price",
\* "Retail Price", "Supply Volume", "Date" the header mapper resolves market
\* to 0, county to 1, wholesale to 2, retail to 3, volume to 4, date to 5 and
\* classification, grade and sex to -1.
C7_ExampleHeadersMapped ==
    out.op = "headers" /\ rawHeaders = H_Example =>
        out.idx = [market |-> 0, county |-> 1, wholesale |-> 2, retail |-> 3,
                   volume |-> 4, date |-> 5,
                   classification |-> -1, grade |-> -1, sex |-> -1]

\* C8: the resolver tries "<market> - <county>" with a hyphen or an en dash,
\* "<market> (<county>)" and "<market>, <county>" in that order and returns
\* the two groups of the first match, trimmed, else the whole text and
\* "Unknown"; "Wakulima - Nairobi" gives ("Wakulima", "Nairobi"),
\* "Kongowea (Mombasa)" gives ("Kongowea", "Mombasa") and "Unnamed Market"
\* gives ("Unnamed Market", "Unknown").
C8_ResolverAsClaimed ==
    out.op = "resolve" =>
        /\ out.pair = FirstPatternMatch(text, {"-", EN_DASH})
        /\ text = T_Wakulima =>
              out.pair = << <<"W","a","k","u","l","i","m","a">>,
                            <<"N","a","i","r","o","b","i">> >>
        /\ text = T_Kongowea =>
              out.pair = << <<"K","o","n","g","o","w","e","a">>,
                            <<"M","o","m","b","a","s","a">> >>
        /\ text = T_Unnamed => out.pair = <<T_Unnamed, Unknown>>

RECURSIVE Pow10(_)
Pow10(n) == IF n = 0 THEN 1 ELSE 10 * Pow10(n - 1)

\* the number a run of digits spells, read from the left
RECURSIVE Spelled(_, _)
Spelled(ds, acc) ==
    IF ds = <<>> THEN acc ELSE Spelled(Tail(ds), 10 * acc + DigitVal(Head(ds)))

\* the digits and the decimal points of a text, in order
DigitsAndPoints(t) == SelectSeq(t, LAMBDA ch : IsDigit(ch) \/ ch = ".")

\* the decimal a text of digits and points spells: digits, then at most one
\* point followed by digits, with one digit at least; None otherwise
SpelledDecimal(t) ==
    LET isNumber(p) == /\ \A i \in 1..Len(t) : i # p => IsDigit(t[i])
                       /\ p \in 1..Len(t) => t[p] = "."
                       /\ \E i \in 1..Len(t) : IsDigit(t[i])
        ps == {p \in 1..(Len(t) + 1) : isNumber(p)}
    IN  IF ps = {} THEN None
        ELSE LET p == CHOOSE x \in ps : TRUE
                 whole == SubSeq(t, 1, p - 1)
                 frac  == SubSeq(t, p + 1, Len(t))
             IN  Dec(Spelled(whole, 0) * Pow10(Len(frac)) + Spelled(frac, 0), Len(frac))

\* C9: parsePrice returns absent for "", "-" and "N/A"; for any other text it
\* returns the decimal spelled by the digits and decimal points of the text,
\* in order, and absent when they spell no number; "Ksh 1,234.50" gives
\* 1234.50.
C9_ParsePriceAsClaimed ==
    out.op = "price" =>
        /\ text \in {<<>>, <<"-">>, <<"N","/","A">>} => out.dec = None
        /\ text \notin {<<>>, <<"-">>, <<"N","/","A">>} =>
              out.dec = SpelledDecimal(DigitsAndPoints(text))
        /\ text = T_Price => out.dec = Dec(123450, 2)

\* "Ksh 1,234.50" was parsed
C9_Witness == out.op = "price" /\ text = T_Price /\ out.dec.ok

\* C10: parseVolume returns absent for "", "-", "N/A" and for a text without
\* a digit; otherwise, with the commas removed, it returns the integer the
\* first maximal run of digits spells; "5,000 kg" gives 5000 and "High" is
\* absent.
C10_ParseVolumeAsClaimed ==
    out.op = "volume" =>
        LET v == SelectSeq(text, LAMBDA ch : ch # ",")
            isRun(i, j) == /\ \A k \in 1..j : IsDigit(v[k]) <=> k >= i
                           /\ j = Len(v) \/ ~IsDigit(v[j + 1])
        IN  /\ text \in {<<>>, <<"-">>, <<"N","/","A">>} => out.dec = None
            /\ (\A k \in 1..Len(text) : ~IsDigit(text[k])) => out.dec = None
            /\ \A i, j \in 1..Len(v) :
                  text \notin {<<>>, <<"-">>, <<"N","/","A">>} /\ i <= j /\ isRun(i, j)
                      => out.dec = Dec(Spelled(SubSeq(v, i, j), 0), 0)
            /\ text = T_Volume => out.dec = Dec(5000, 0)
            /\ text = T_High => out.dec = None

\* "5,000 kg" was parsed
C10_Witness == out.op = "volume" /\ text = T_Volume /\ out.dec.ok

\* the rows of the table that have three cells or more
LongRows == SelectSeq(rawRows, LAMBDA cells : Len(cells) >= 3)

\* C12: a row with fewer than 3 cells contributes no record and raises
\* nothing: the table gives what it gives without its short rows, a table of
\* short rows only gives no record without raising, and when nothing is
\* raised the records are those of the other rows, one each, in row order.
C12_ShortRowsSkipped ==
    out.op = "extract" =>
        LET name == ProductPool[1].name
            rest == ExtractRecords(name, rawHeaders, LongRows, out.today)
        IN  /\ out.records = rest.records
            /\ out.raised = rest.raised
            /\ LongRows = <<>> => ~out.raised
            /\ ~out.raised =>
                  /\ Len(out.records) = Len(LongRows)
                  /\ \A k \in 1..Len(LongRows) :
                        out.records[k] = RowRecord(name, IdxMap(HeaderTexts(rawHeaders)),
                                                   LongRows[k], out.today)

\* a table of a short row and another row gave the record of the other row
C12_Witness ==
    /\ out.op = "extract"
    /\ Len(rawRows) = 2 /\ Len(rawRows[1]) < 3
    /\ ~out.raised /\ Len(out.records) = 1
    /\ out.records[1].market_name = <<"W","a","k","u","l","i","m","a">>

\* C18: every record of the table extractor has a non-empty market_name and
\* a non-empty county_name, for every header mapping, also when no header
\* maps to market or to county, and every cell content.
C18_NamesNotEmpty ==
    out.op = "extract" =>
        \A k \in 1..Len(out.records) :
            /\ out.records[k].market_name # <<>>
            /\ out.records[k].county_name # <<>>

\* the days of a month
CalendarDays(y, m) ==
    IF m = 2 THEN (IF y % 4 = 0 /\ (y % 100 # 0 \/ y % 400 = 0) THEN 29 ELSE 28)
    ELSE <<31, 0, 31, 30, 31, 30, 31, 31, 30, 31, 30, 31>>[m]

IsCalendarDate(d) ==
    /\ d[1] >= 1 /\ d[2] \in 1..12
    /\ d[3] >= 1 /\ d[3] <= CalendarDays(d[1], d[2])

\* the calendar dates of the years the generated texts name
ClaimDates ==
    {d \in {2023, 2024} \X (1..12) \X (1..31) : IsCalendarDate(d)}

\* a day or a month written in one or two digits
Written(n) == {Pad2(n)} \cup (IF n < 10 THEN {<<DigitCh(n)>>} ELSE {})

\* the texts that write a date in each pattern
WrittenAs(pattern, d) ==
    CASE pattern = "YYYY-MM-DD" ->
             {Pad4(d[1]) \o <<"-">> \o mm \o <<"-">> \o dd :
                  mm \in Written(d[2]), dd \in Written(d[3])}
      [] pattern = "DD/MM/YYYY" ->
             {dd \o <<"/">> \o mm \o <<"/">> \o Pad4(d[1]) :
                  mm \in Written(d[2]), dd \in Written(d[3])}
      [] pattern = "DD-MM-YYYY" ->
             {dd \o <<"-">> \o mm \o <<"-">> \o Pad4(d[1]) :
                  mm \in Written(d[2]), dd \in Written(d[3])}
      [] pattern = "MM/DD/YYYY" ->
             {mm \o <<"/">> \o dd \o <<"/">> \o Pad4(d[1]) :
                  mm \in Written(d[2]), dd \in Written(d[3])}

ClaimPatterns == <<"YYYY-MM-DD", "DD/MM/YYYY", "DD-MM-YYYY", "MM/DD/YYYY">>

\* for each pattern, the texts that write a date in it, each with its date
Writings ==
    [k \in 1..4 |->
        UNION {{<<w, d>> : w \in WrittenAs(ClaimPatterns[k], d)} : d \in ClaimDates}]

\* the dates a text writes in the k-th pattern
ReadAs(k, v) == {x[2] : x \in {y \in Writings[k] : y[1] = v}}

T_SlashBoth  == <<"0","2","/","1","2","/","2","0","2","4">>
T_SlashMonth == <<"0","2","/","1","3","/","2","0","2","4">>
T_NoSuchDay  == <<"3","1","/","0","2","/","2","0","2","4">>

\* C19: parseDate always returns a date: that of the first of the patterns
\* YYYY-MM-DD, DD/MM/YYYY, DD-MM-YYYY, MM/DD/YYYY the text writes a date in,
\* so that a slash date valid under both readings is read as day/month and
\* month/day is used only when day/month fails, and the current date when
\* the text writes a date in none.
C19_ParseDateAsClaimed ==
    out.op = "date" =>
        LET v == Strip(text)
            hits == {k \in 1..4 : ReadAs(k, v) # {}}
        IN  /\ IsCalendarDate(out.date)
            /\ hits = {} => out.date = out.today
            /\ hits # {} =>
                  out.date \in ReadAs(CHOOSE k \in hits : \A h \in hits : k <= h, v)
            /\ text = T_SlashBoth => out.date = <<2024, 12, 2>>
            /\ text = T_SlashMonth => out.date = <<2024, 2, 13>>
            /\ text = T_NoSuchDay => out.date = out.today

\* a slash date valid under both readings was parsed
C19_Witness == out.op = "date" /\ text = T_SlashBoth /\ out.date = <<2024, 12, 2>>

=============================================================================
